---- MODULE Spec2Model ----
(***************************************************************************)
(* State-machine model of the gSOL bridge minter (src/minter):             *)
(* the event-sourced State (state.rs, state/audit.rs), the four deposit    *)
(* tasks (deposit.rs), the withdrawal entry point (withdraw.rs), the       *)
(* timers (main.rs) and upgrade by replay (lifecycle.rs).                  *)
(*                                                                         *)
(* One action is one message execution of the canister: the code that runs *)
(* between two suspension points.  A panic inside a message execution      *)
(* (a trap) discards every state and log write of that execution; the      *)
(* suspended future is then dropped, which releases the guard it holds.    *)
(* Effects on the ledger are external and are never rolled back.           *)
(*                                                                         *)
(* Solana signatures are numbered in chain order: 0 is the configured      *)
(* initial signature, signature n is the n-th transaction of the source    *)
(* program, and a larger number is newer.                                  *)
(***************************************************************************)
EXTENDS Integers, Sequences, FiniteSets, TLC

\* ---------------------------------------------------------------- bounds
\* Transactions of the source program on Solana, without and with upgrades.
MaxSig == 2
MaxSigUpgrade == 1
\* Upgrades of the canister.
MaxUpgrades == 1
\* Burn ids allocated between two upgrades.
MaxBurns == 2
\* Burn ids allocated between two upgrades when the canister is upgraded.
MaxBurnsUpgrade == 1
\* Length of the log up to which get_coupon is called for a burned withdrawal.
MaxLog == 4
MaxLogUpgrade == 3
\* Length of the logs that replay is given.
MaxReplayLog == 3

\* ------------------------------------------------------ program constants
GET_SIGNATURES_BY_ADDRESS_LIMIT == 10
GET_TRANSACTIONS_LIMIT == 1
SOLANA_SIGNATURE_RANGES_RETRY_LIMIT == 100
SOLANA_SIGNATURE_RETRY_LIMIT == 100
MINT_GSOL_RETRY_LIMIT == 100
U8 == 256

InitialSig == 0
Sigs == 1..MaxSig
Principals == {"p1", "p2"}
TaskType == {"GetLatestSignature", "ScrapSignatureRanges", "ScrapSignatures", "MintGSol"}

VARIABLES
    state,        \* STATE: the in-memory State of the canister
    log,          \* the event log in stable memory
    chain,        \* Solana: chain[n] is the kind of transaction n of the source program
    timers,       \* the one-shot timers that are set and have not fired
    runs,         \* the task futures: the start-up chain and one per timer
    calls,        \* the withdraw calls in flight, one slot per principal
    ledger,       \* the ledger's blocks: the transfers that succeeded, in order
    upgrades      \* number of upgrades done

vars == <<state, log, chain, timers, runs, calls, ledger, upgrades>>

\* ------------------------------------------------------------ map helpers
Put(m, k, v) == (k :> v) @@ m
Del(m, k) == [x \in DOMAIN m \ {k} |-> m[x]]
EmptyMap == [x \in {} |-> 0]
Min(a, b) == IF a < b THEN a ELSE b
Max(a, b) == IF a > b THEN a ELSE b

\* ------------------------------------------------------------- events/mod
increment_retries(r) == (r + 1) % U8

SolanaSignatureRange_new(before, until) ==
    [before_sol_sig |-> before, until_sol_sig |-> until, retries |-> 0]

SolanaSignature_new(sig) == [sol_sig |-> sig, retries |-> 0]

is_retry_limit_reached(retries, limit) == retries >= limit

\* ---------------------------------------------------------------- state.rs
\* The result of a State method: ok = FALSE is a panic.
Ok(s) == [ok |-> TRUE, s |-> s]
Panic(s) == [ok |-> FALSE, s |-> s]

\* `trim().is_empty()` of a name or an address; the blank signature.
Blank(str) == str \in {"", " "}
BlankSig == -1

\* Variant: a configuration that is never looked at.
validate_config_skipped(s) == TRUE

\* State::validate_config: TRUE for Ok(()).
validate_config(s) ==
    /\ ~Blank(s.ecdsa_key_name)
    /\ s.ledger_id # "anonymous"
    /\ ~Blank(s.solana_contract_address)
    /\ s.solana_initial_signature # BlankSig
    /\ s.minimum_withdrawal_amount # 0

\* impl TryFrom<InitArg> for State: the State is built and then validated.
State_try_from(init_arg) ==
    LET s == [ solana_contract_address |-> init_arg.solana_contract_address,
               solana_initial_signature |-> init_arg.solana_initial_signature,
               ecdsa_key_name |-> init_arg.ecdsa_key_name,
               ecdsa_public_key |-> <<>>,
               ledger_id |-> init_arg.ledger_id,
               minimum_withdrawal_amount |-> init_arg.minimum_withdrawal_amount,
               solana_last_known_signature |-> {},
               solana_signature_ranges |-> EmptyMap,
               solana_signatures |-> EmptyMap,
               invalid_events |-> EmptyMap,
               accepted_events |-> EmptyMap,
               minted_events |-> EmptyMap,
               withdrawal_burned_events |-> EmptyMap,
               withdrawal_redeemed_events |-> EmptyMap,
               withdrawing_principals |-> {},
               burn_id_counter |-> 0,
               deposit_id_counter |-> 0,
               active_tasks |-> {} ]
    IN IF validate_config(s) THEN Ok(s) ELSE Panic(s)

record_solana_last_known_signature(s, sig) ==
    Ok([s EXCEPT !.solana_last_known_signature = {sig}])

\* Variant: the cursor read as if no newer signature had ever been recorded.
get_solana_initial_signature(s) == s.solana_initial_signature

get_solana_last_known_signature(s) ==
    IF s.solana_last_known_signature = {}
    THEN s.solana_initial_signature
    ELSE CHOOSE sig \in s.solana_last_known_signature : TRUE

range_key(start, end) == <<start, end>>

record_solana_signature_range(s, range) ==
    LET key == range_key(range.before_sol_sig, range.until_sol_sig) IN
    IF key \in DOMAIN s.solana_signature_ranges
    THEN Panic(s)
    ELSE Ok([s EXCEPT !.solana_signature_ranges = Put(@, key, range)])

retry_solana_signature_range(s, old_range, new_range) ==
    LET old_key == range_key(old_range.before_sol_sig, old_range.until_sol_sig) IN
    IF old_key \notin DOMAIN s.solana_signature_ranges
    THEN Panic(s)
    ELSE LET stored == s.solana_signature_ranges[old_key]
             removed == [s EXCEPT !.solana_signature_ranges = Del(@, old_key)] IN
         IF new_range # <<>>
         THEN record_solana_signature_range(removed, new_range[1])
         ELSE Ok([s EXCEPT !.solana_signature_ranges =
                     Put(Del(@, old_key), old_key,
                         [stored EXCEPT !.retries = increment_retries(@)])])

remove_solana_signature_range(s, range) ==
    LET key == range_key(range.before_sol_sig, range.until_sol_sig) IN
    IF key \in DOMAIN s.solana_signature_ranges
    THEN Ok([s EXCEPT !.solana_signature_ranges = Del(@, key)])
    ELSE Panic(s)

record_solana_signature(s, sig) ==
    IF sig.sol_sig \in DOMAIN s.solana_signatures
    THEN LET existing == s.solana_signatures[sig.sol_sig] IN
         Ok([s EXCEPT !.solana_signatures =
                Put(Del(@, sig.sol_sig), sig.sol_sig,
                    [existing EXCEPT !.retries = increment_retries(@)])])
    ELSE Ok([s EXCEPT !.solana_signatures = Put(@, sig.sol_sig, sig)])

\* The assertion of record_invalid_event, as written: it passes when the key
\* is already in invalid_events.
invalid_event_assertion(s, key) == key \in DOMAIN s.invalid_events

record_invalid_event(s, sig) ==
    LET key == sig.sol_sig IN
    IF key \notin DOMAIN s.solana_signatures
    THEN Panic(s)
    ELSE LET removed == [s EXCEPT !.solana_signatures = Del(@, key)] IN
         IF ~invalid_event_assertion(removed, key)
         THEN Panic(s)
         ELSE Ok([removed EXCEPT !.invalid_events = Put(@, key, sig)])

record_accepted_event(s, deposit) ==
    LET key == deposit.sol_sig IN
    IF key \notin DOMAIN s.solana_signatures
    THEN Panic(s)
    ELSE LET removed == [s EXCEPT !.solana_signatures = Del(@, key)] IN
         IF key \in DOMAIN removed.accepted_events
         THEN LET existing == removed.accepted_events[key] IN
              Ok([removed EXCEPT !.accepted_events =
                     Put(Del(@, key), key,
                         [existing EXCEPT !.retries = increment_retries(@)])])
         ELSE Ok([removed EXCEPT !.accepted_events = Put(@, key, deposit)])

\* The assertion of record_minted_event, as written: it passes when the key
\* is already in minted_events.
minted_event_assertion(s, key) == key \in DOMAIN s.minted_events

record_minted_event(s, deposit) ==
    LET key == deposit.sol_sig IN
    IF key \notin DOMAIN s.accepted_events
    THEN Panic(s)
    ELSE LET removed == [s EXCEPT !.accepted_events = Del(@, key)] IN
         IF ~minted_event_assertion(removed, key)
         THEN Panic(s)
         ELSE Ok([removed EXCEPT !.minted_events = Put(@, key, deposit)])

\* WithdrawalBurnedEvent: inserts or updates the burned map by burn_id.
record_withdrawal_burned_event(s, w) ==
    Ok([s EXCEPT !.withdrawal_burned_events = Put(Del(@, w.id), w.id, w)])

\* WithdrawalRedeemedEvent: moves the withdrawal from burned to redeemed.
record_withdrawal_redeemed_event(s, w) ==
    IF w.id \notin DOMAIN s.withdrawal_burned_events
    THEN Panic(s)
    ELSE Ok([s EXCEPT !.withdrawal_burned_events = Del(@, w.id),
                      !.withdrawal_redeemed_events = Put(Del(@, w.id), w.id, w)])

\* The id counters: read, then write the successor directly into the State.
next_deposit_id(s) ==
    [id |-> s.deposit_id_counter,
     s |-> [s EXCEPT !.deposit_id_counter = @ + 1]]

next_burn_id(s) ==
    [id |-> s.burn_id_counter,
     s |-> [s EXCEPT !.burn_id_counter = @ + 1]]

\* State::upgrade has an empty body.
State_upgrade(s, upgrade_arg) == Ok(s)

\* ------------------------------------------------------- state/event.rs
Init_event(init_arg) == [tag |-> "Init", init_arg |-> init_arg]
Upgrade_event(upgrade_arg) == [tag |-> "Upgrade", upgrade_arg |-> upgrade_arg]
LastKnownSolanaSignature(sig) == [tag |-> "LastKnownSolanaSignature", sig |-> sig]
NewSolanaSignatureRange(range) == [tag |-> "NewSolanaSignatureRange", range |-> range]
RemoveSolanaSignatureRange(range) == [tag |-> "RemoveSolanaSignatureRange", range |-> range]
RetrySolanaSignatureRange(range, failed_sub_range, fail_reason) ==
    [tag |-> "RetrySolanaSignatureRange", range |-> range,
     failed_sub_range |-> failed_sub_range, fail_reason |-> fail_reason]
SolanaSignature(signature, fail_reason) ==
    [tag |-> "SolanaSignature", signature |-> signature, fail_reason |-> fail_reason]
InvalidEvent(signature, fail_reason) ==
    [tag |-> "InvalidEvent", signature |-> signature, fail_reason |-> fail_reason]
AcceptedEvent(event_source, fail_reason) ==
    [tag |-> "AcceptedEvent", event_source |-> event_source, fail_reason |-> fail_reason]
MintedEvent(event_source) == [tag |-> "MintedEvent", event_source |-> event_source]
WithdrawalBurnedEvent(event_source, fail_reason) ==
    [tag |-> "WithdrawalBurnedEvent", event_source |-> event_source,
     fail_reason |-> fail_reason]
WithdrawalRedeemedEvent(event_source) ==
    [tag |-> "WithdrawalRedeemedEvent", event_source |-> event_source]

\* A fail_reason that is present: the text of the error is not modelled.
Reason == <<"error">>

\* ------------------------------------------------------- state/audit.rs
apply_state_transition(s, payload) ==
    CASE payload.tag = "Init" -> Panic(s)
      [] payload.tag = "Upgrade" -> State_upgrade(s, payload.upgrade_arg)
      [] payload.tag = "LastKnownSolanaSignature" ->
            record_solana_last_known_signature(s, payload.sig)
      [] payload.tag = "NewSolanaSignatureRange" ->
            record_solana_signature_range(s, payload.range)
      [] payload.tag = "RemoveSolanaSignatureRange" ->
            remove_solana_signature_range(s, payload.range)
      [] payload.tag = "RetrySolanaSignatureRange" ->
            retry_solana_signature_range(s, payload.range, payload.failed_sub_range)
      [] payload.tag = "SolanaSignature" ->
            record_solana_signature(s, payload.signature)
      [] payload.tag = "InvalidEvent" ->
            record_invalid_event(s, payload.signature)
      [] payload.tag = "AcceptedEvent" ->
            record_accepted_event(s, payload.event_source)
      [] payload.tag = "MintedEvent" ->
            record_minted_event(s, payload.event_source)
      [] payload.tag = "WithdrawalBurnedEvent" ->
            record_withdrawal_burned_event(s, payload.event_source)
      [] payload.tag = "WithdrawalRedeemedEvent" ->
            record_withdrawal_redeemed_event(s, payload.event_source)

\* A message execution in progress: the State, the log, and whether it trapped.
Ctx(s, l) == [s |-> s, log |-> l, trap |-> FALSE]

record_event(l, payload) == Append(l, payload)

process_event(ctx, payload) ==
    IF ctx.trap THEN ctx
    ELSE LET r == apply_state_transition(ctx.s, payload) IN
         IF r.ok
         THEN [s |-> r.s, log |-> record_event(ctx.log, payload), trap |-> FALSE]
         ELSE [ctx EXCEPT !.trap = TRUE]

RECURSIVE replay_from(_, _, _)
replay_from(r, l, i) ==
    IF i > Len(l) \/ ~r.ok THEN r
    ELSE replay_from(apply_state_transition(r.s, l[i]), l, i + 1)

\* Variant: a replay that takes the first event as it comes.
replay_events_unchecked(l) ==
    IF Len(l) = 0 THEN Panic(<<>>)
    ELSE IF l[1].tag = "Init" THEN replay_from(State_try_from(l[1].init_arg), l, 2)
    ELSE replay_from(State_try_from([solana_contract_address |-> "contract",
                                     solana_initial_signature |-> InitialSig,
                                     ecdsa_key_name |-> "key_1", ledger_id |-> "ledger",
                                     minimum_withdrawal_amount |-> 1]), l, 1)

replay_events(l) ==
    IF Len(l) = 0 \/ l[1].tag # "Init"
    THEN Panic(<<>>)
    ELSE replay_from(State_try_from(l[1].init_arg), l, 2)

\* ------------------------------------------------------------- guard
TimerGuard_new(s, task) ==
    IF task \in s.active_tasks
    THEN Panic(s)
    ELSE Ok([s EXCEPT !.active_tasks = @ \cup {task}])

TimerGuard_drop(s, task) == [s EXCEPT !.active_tasks = @ \ {task}]

retrieve_sol_guard(s, principal) ==
    IF principal \in s.withdrawing_principals
    THEN Panic(s)
    ELSE Ok([s EXCEPT !.withdrawing_principals = @ \cup {principal}])

retrieve_sol_guard_drop(s, principal) ==
    [s EXCEPT !.withdrawing_principals = @ \ {principal}]

\* ------------------------------------------------- Solana JSON-RPC provider
\* getSignaturesForAddress: the signatures of the source program strictly
\* newer than until and strictly older than before, newest first, at most limit.
get_signatures_for_address(ch, limit, before, until) ==
    LET hi == IF before = <<>> THEN Len(ch) ELSE Min(before[1] - 1, Len(ch))
        n == Min(limit, Max(0, hi - until))
    IN [i \in 1..n |-> hi - i + 1]

\* ------------------------------------------------------------ task futures
RunIds == {"startup"} \cup TaskType

\* The timers set by setup_timers: the key fetch and one per run.
Timers == {"PublicKey"} \cup RunIds

IdleRun ==
    [task |-> "none", pc |-> "idle", until |-> 0, todo |-> {}, range |-> <<>>,
     before_signature |-> 0, result |-> <<>>, at_least_one_successful_call |-> FALSE,
     transactions |-> <<>>]

Awaiting(task) == [IdleRun EXCEPT !.task = task, !.pc = "await"]

\* Variant: a task that goes on when its guard is refused.
guard_ignored(g) == FALSE

\* `Err(_) => return` after TimerGuard::new: the task does nothing when the
\* guard is refused.
guard_refused(g) == ~g.ok

Filter(m, limit) ==
    {m[k] : k \in {x \in DOMAIN m : ~is_retry_limit_reached(m[x].retries, limit)}}

\* The first message execution of each task, up to its first outbound call.
\* The result is the State and the future: awaiting a response, or finished.
\* Variant: every run of get_latest_signature reads up to the initial signature.
get_latest_signature_begin_from_initial(s) ==
    LET g == TimerGuard_new(s, "GetLatestSignature") IN
    IF guard_refused(g) THEN [s |-> s, run |-> IdleRun]
    ELSE [s |-> g.s,
          run |-> [Awaiting("GetLatestSignature") EXCEPT
                      !.until = g.s.solana_initial_signature]]

get_latest_signature_begin(s) ==
    LET g == TimerGuard_new(s, "GetLatestSignature") IN
    IF guard_refused(g) THEN [s |-> s, run |-> IdleRun]
    ELSE [s |-> g.s,
          run |-> [Awaiting("GetLatestSignature") EXCEPT
                      !.until = get_solana_last_known_signature(g.s)]]

scrap_signature_range_begin(s) ==
    LET g == TimerGuard_new(s, "ScrapSignatureRanges")
        filtered_ranges ==
            Filter(s.solana_signature_ranges, SOLANA_SIGNATURE_RANGES_RETRY_LIMIT)
    IN
    IF guard_refused(g) THEN [s |-> s, run |-> IdleRun]
    ELSE IF filtered_ranges = {}
    THEN [s |-> TimerGuard_drop(g.s, "ScrapSignatureRanges"), run |-> IdleRun]
    ELSE [s |-> g.s,
          run |-> [Awaiting("ScrapSignatureRanges") EXCEPT !.todo = filtered_ranges]]

scrap_signatures_begin(s) ==
    LET g == TimerGuard_new(s, "ScrapSignatures")
        filtered_signatures == Filter(s.solana_signatures, SOLANA_SIGNATURE_RETRY_LIMIT)
    IN
    IF guard_refused(g) THEN [s |-> s, run |-> IdleRun]
    ELSE IF filtered_signatures = {}
    THEN [s |-> TimerGuard_drop(g.s, "ScrapSignatures"), run |-> IdleRun]
    ELSE [s |-> g.s,
          run |-> [Awaiting("ScrapSignatures") EXCEPT !.todo = filtered_signatures]]

mint_gsol_begin(s) ==
    LET g == TimerGuard_new(s, "MintGSol")
        filtered_events == Filter(s.accepted_events, MINT_GSOL_RETRY_LIMIT)
    IN
    IF guard_refused(g) THEN [s |-> s, run |-> IdleRun]
    ELSE IF filtered_events = {}
    THEN [s |-> TimerGuard_drop(g.s, "MintGSol"), run |-> IdleRun]
    ELSE [s |-> g.s, run |-> [Awaiting("MintGSol") EXCEPT !.todo = filtered_events]]

Begin(s, task) ==
    CASE task = "GetLatestSignature" -> get_latest_signature_begin(s)
      [] task = "ScrapSignatureRanges" -> scrap_signature_range_begin(s)
      [] task = "ScrapSignatures" -> scrap_signatures_begin(s)
      [] task = "MintGSol" -> mint_gsol_begin(s)

\* setup_timers: the start-up timer awaits three tasks in sequence; every other
\* timer awaits one task.
FirstTask(rid) == IF rid = "startup" THEN "GetLatestSignature" ELSE rid

TaskAfter(rid, task) ==
    IF rid # "startup" THEN "none"
    ELSE CASE task = "GetLatestSignature" -> "ScrapSignatureRanges"
           [] task = "ScrapSignatureRanges" -> "ScrapSignatures"
           [] OTHER -> "none"

\* Poll the future of timer rid from the start of `task` until it suspends or ends.
RECURSIVE Launch(_, _, _)
Launch(s, rid, task) ==
    IF task = "none" THEN [s |-> s, run |-> IdleRun]
    ELSE LET b == Begin(s, task) IN
         IF b.run.pc = "await" THEN b
         ELSE Launch(b.s, rid, TaskAfter(rid, task))

\* Variant: a task that returns without dropping its guard.
Finish_keeping_guard(s, rid, task) == Launch(s, rid, TaskAfter(rid, task))

\* `task` returns inside the current message execution: its guard is dropped
\* and the future goes on with what it awaits next.
Finish(s, rid, task) == Launch(TimerGuard_drop(s, task), rid, TaskAfter(rid, task))

\* End of a message execution of the future rid.  ctx is the execution's
\* context after its events, next the State and future it would leave.
\* A trap rolls State and log back and drops the future with its guard.
Commit(rid, ctx, next) ==
    IF ctx.trap
    THEN /\ state' = TimerGuard_drop(state, runs[rid].task)
         /\ log' = log
         /\ runs' = [runs EXCEPT ![rid] = IdleRun]
    ELSE /\ state' = next.s
         /\ log' = ctx.log
         /\ runs' = [runs EXCEPT ![rid] = next.run]

\* ------------------------------------------------------------ deposit.rs
\* Variant: the range is recorded before the cursor.
new_range_before_cursor(ctx, newest_signature, until_signature) ==
    process_event(
        process_event(ctx,
            NewSolanaSignatureRange(SolanaSignatureRange_new(newest_signature, until_signature))),
        LastKnownSolanaSignature(newest_signature))

process_new_solana_signature_range(ctx, newest_signature, until_signature) ==
    process_event(
        process_event(ctx, LastKnownSolanaSignature(newest_signature)),
        NewSolanaSignatureRange(SolanaSignatureRange_new(newest_signature, until_signature)))

\* Variant: the failed sub-range is the whole range again.
retry_whole_range(ctx, range, before_signature, until_signature, error) ==
    process_event(ctx,
        RetrySolanaSignatureRange(range,
            <<SolanaSignatureRange_new(range.before_sol_sig, until_signature)>>, error))

process_retry_solana_signature_range(ctx, range, before_signature, until_signature, error) ==
    process_event(ctx,
        RetrySolanaSignatureRange(range,
            <<SolanaSignatureRange_new(before_signature, until_signature)>>, error))

process_solana_signature(ctx, signature, err) ==
    process_event(ctx, SolanaSignature(signature, err))

process_invalid_event(ctx, signature, err) ==
    process_event(ctx, InvalidEvent(signature, err))

process_accepted_event(ctx, event, err) ==
    process_event(ctx, AcceptedEvent(event, err))

process_minted_event(ctx, event) ==
    process_event(ctx, MintedEvent(event))

\* Variant: only the first signature of the result is recorded.
process_result_first_only(ctx, result, i) ==
    IF result = <<>> THEN ctx
    ELSE process_solana_signature(ctx, SolanaSignature_new(result[1]), <<>>)

\* `result.iter().for_each(process_solana_signature)` at the end of a walk.
RECURSIVE process_result(_, _, _)
process_result(ctx, result, i) ==
    IF i > Len(result) THEN ctx
    ELSE process_result(
             process_solana_signature(ctx, SolanaSignature_new(result[i]), <<>>),
             result, i + 1)

\* The deposit read from a transaction: the id is allocated by the caller.
DepositEvent_new(id, signature) ==
    [id |-> id, sol_sig |-> signature, icp_mint_block_index |-> <<>>, retries |-> 0]

update_mint_block_index(event, block_index) ==
    [event EXCEPT !.icp_mint_block_index = <<block_index>>]

\* Result: the context (the id counter is written directly into the State),
\* and the deposit or the error.
process_transaction_logs(ctx, transaction) ==
    IF transaction.kind = "deposit"
    THEN LET n == next_deposit_id(ctx.s) IN
         [ctx |-> [ctx EXCEPT !.s = n.s],
          deposit |-> <<DepositEvent_new(n.id, transaction.signature)>>,
          error |-> <<>>]
    ELSE [ctx |-> ctx, deposit |-> <<>>, error |-> Reason]

RECURSIVE parse_log_messages(_, _, _)
parse_log_messages(ctx, transactions, i) ==
    IF i > Len(transactions) THEN ctx
    ELSE LET r == process_transaction_logs(ctx, transactions[i].transaction)
             c == IF r.deposit # <<>>
                  THEN process_accepted_event(r.ctx, r.deposit[1], <<>>)
                  ELSE process_invalid_event(r.ctx, transactions[i].signature, r.error)
         IN parse_log_messages(c, transactions, i + 1)

\* The ledger: a transfer that succeeds appends a block and returns its index.
Block(op, memo, sol_sig) == [op |-> op, memo |-> memo, sol_sig |-> sol_sig]

\* ------------------------------------------------------------------ actions
\* A transaction of the source program lands on Solana.
SolanaTransaction(kind, max) ==
    /\ Len(chain) < max
    /\ chain' = Append(chain, kind)
    /\ UNCHANGED <<state, log, timers, runs, calls, ledger, upgrades>>

\* A timer set by setup_timers fires and spawns its future.
TimerFire(rid) ==
    /\ rid \in timers
    /\ timers' = timers \ {rid}
    /\ LET l == Launch(state, rid, FirstTask(rid)) IN
       /\ state' = l.s
       /\ runs' = [runs EXCEPT ![rid] = l.run]
    /\ UNCHANGED <<log, chain, calls, ledger, upgrades>>

\* Variant: the cursor is recorded whatever the provider answers.
get_latest_signature_recording(ctx, resp, signatures, until_signature) ==
    process_event(ctx, LastKnownSolanaSignature(
                           IF Len(signatures) >= 1 THEN signatures[1] ELSE until_signature))

\* get_latest_signature, the match on the provider's answer: events are
\* recorded for a list of one signature only.
get_latest_signature_match(ctx, resp, signatures, until_signature) ==
    IF resp = "ok"
    THEN CASE Len(signatures) = 0 -> ctx
           [] Len(signatures) = 1 ->
                process_new_solana_signature_range(ctx, signatures[1], until_signature)
           [] OTHER -> ctx
    ELSE ctx

\* get_latest_signature resumes with the provider's answer.
GetLatestSignatureResponse(rid, resp) ==
    LET run == runs[rid]
        signatures == get_signatures_for_address(chain, 1, <<>>, run.until)
        ctx == get_latest_signature_match(Ctx(state, log), resp, signatures, run.until)
    IN /\ run.task = "GetLatestSignature"
       /\ run.pc = "await"
       /\ Commit(rid, ctx, Finish(ctx.s, rid, run.task))
       /\ UNCHANGED <<chain, timers, calls, ledger, upgrades>>

\* Variant: a range walk that never pushes the range's own `before`.
initial_element_dropped(before_signature, at_least_one_successful_call) == <<>>

\* The first element of the result of a range walk: the range's own `before`,
\* pushed after the first successful call only.
initial_element(before_signature, at_least_one_successful_call) ==
    IF ~at_least_one_successful_call THEN <<before_signature>> ELSE <<>>

\* process_signature_range_with_limit resumes with the provider's answer for
\* `range`; a walk that starts takes any range left of the scan set.
ScrapSignatureRangeResponse(rid, range, resp) ==
    LET run == runs[rid]
        starting == run.range = <<>>
        before_signature == IF starting THEN range.before_sol_sig ELSE run.before_signature
        until_signature == range.until_sol_sig
        called == IF starting THEN FALSE ELSE run.at_least_one_successful_call
        result == IF starting THEN <<>> ELSE run.result
        signatures == get_signatures_for_address(chain, GET_SIGNATURES_BY_ADDRESS_LIMIT,
                                                 <<before_signature>>, until_signature)
        result_ok == result \o initial_element(before_signature, called)
        looping == resp = "ok" /\ signatures # <<>>
        ctx == IF resp = "ok"
               THEN process_result(
                        process_event(Ctx(state, log), RemoveSolanaSignatureRange(range)),
                        result_ok, 1)
               ELSE LET c == process_retry_solana_signature_range(Ctx(state, log), range,
                                 before_signature, until_signature, Reason)
                    IN IF called THEN process_result(c, result, 1) ELSE c
        todo == run.todo \ {range}
    IN /\ run.task = "ScrapSignatureRanges"
       /\ run.pc = "await"
       /\ range \in run.todo
       /\ ~starting => range = run.range[1]
       /\ IF looping
          THEN /\ runs' = [runs EXCEPT ![rid] =
                             [run EXCEPT !.range = <<range>>,
                                         !.before_signature = signatures[Len(signatures)],
                                         !.result = result_ok \o signatures,
                                         !.at_least_one_successful_call = TRUE]]
               /\ UNCHANGED <<state, log>>
          ELSE Commit(rid, ctx,
                      IF todo = {} THEN Finish(ctx.s, rid, run.task)
                      ELSE [s |-> ctx.s,
                            run |-> [Awaiting(run.task) EXCEPT !.todo = todo]])
       /\ UNCHANGED <<chain, timers, calls, ledger, upgrades>>

\* process_signatures_with_limit on the provider's answer for the chunk
\* holding `signature`, and parse_log_messages after the last chunk: the
\* context of the message execution and the transactions fetched so far.
process_signatures_answer(ctx, run, signature, resp) ==
    LET c1 == IF resp = "found" THEN ctx
              ELSE process_solana_signature(ctx, signature, Reason)
        transactions ==
            IF resp = "found"
            THEN Append(run.transactions,
                        [signature |-> signature,
                         transaction |-> [signature |-> signature.sol_sig,
                                          kind |-> chain[signature.sol_sig]]])
            ELSE run.transactions
    IN [ctx |-> IF run.todo \ {signature} = {}
                THEN parse_log_messages(c1, transactions, 1) ELSE c1,
        transactions |-> transactions]

\* process_signatures_with_limit resumes with the provider's answer for the
\* chunk holding `signature`; after the last chunk parse_log_messages runs.
ScrapSignaturesResponse(rid, signature, resp) ==
    LET run == runs[rid]
        answer == process_signatures_answer(Ctx(state, log), run, signature, resp)
        ctx == answer.ctx
        todo == run.todo \ {signature}
    IN /\ run.task = "ScrapSignatures"
       /\ run.pc = "await"
       /\ signature \in run.todo
       /\ resp = "found" => signature.sol_sig \in DOMAIN chain
       /\ Commit(rid, ctx,
                 IF todo = {} THEN Finish(ctx.s, rid, run.task)
                 ELSE [s |-> ctx.s,
                       run |-> [run EXCEPT !.todo = todo,
                                           !.transactions = answer.transactions]])
       /\ UNCHANGED <<chain, timers, calls, ledger, upgrades>>

\* mint_gsol, the match on the ledger's answer to the transfer for `event`.
mint_gsol_match(ctx, event, resp, block_index) ==
    IF resp = "ok"
    THEN process_minted_event(ctx, update_mint_block_index(event, block_index))
    ELSE process_accepted_event(ctx, event, Reason)

\* mint_gsol resumes with the ledger's answer to the transfer for `event`.
MintGSolResponse(rid, event, resp) ==
    LET run == runs[rid]
        ctx == mint_gsol_match(Ctx(state, log), event, resp, Len(ledger))
        todo == run.todo \ {event}
    IN /\ run.task = "MintGSol"
       /\ run.pc = "await"
       /\ event \in run.todo
       /\ ledger' = IF resp = "ok"
                    THEN Append(ledger, Block("mint", event.id, event.sol_sig))
                    ELSE ledger
       /\ Commit(rid, ctx,
                 IF todo = {} THEN Finish(ctx.s, rid, run.task)
                 ELSE [s |-> ctx.s, run |-> [run EXCEPT !.todo = todo]])
       /\ UNCHANGED <<chain, timers, calls, upgrades>>

\* --------------------------------------------------------------- withdraw.rs
\* The threshold-ECDSA oracle and the curve, abstractly: a signature names its
\* signer, the message that was signed and the parity of the nonce point.
MinterKey == "minter_key"
OtherKey == "other_key"
UnrelatedKey == "unrelated_key"

Signature(signer, message, parity) ==
    [signer |-> signer, message |-> message, parity |-> parity]

\* VerifyingKey::recover_from_msg: the signer when the message and the
\* recovery id are the signature's, some unrelated key otherwise.
recover_from_msg(message, signature, rec_id) ==
    IF signature.message = message /\ signature.parity = rec_id
    THEN signature.signer
    ELSE UnrelatedKey

\* Coupon::verify
verify(coupon) ==
    /\ coupon.signature.signer = coupon.icp_public_key
    /\ coupon.signature.message = coupon.message

\* The serialised WithdrawalEventWithoutCbor that is hashed and signed.
serialized_coupon(event) ==
    [from_icp_address |-> event.from_icp_address, amount |-> event.amount,
     burn_id |-> event.id, icp_burn_block_index |-> event.icp_burn_block_index]

\* The answers of the oracle to sign_with_ecdsa: a signature of the minter's
\* key with either parity, a signature that is not of the minter's key, or an
\* error.
SignAnswers == {"parity0", "parity1", "foreign", "SigningWithEcdsaFailed"}

sign_with_ecdsa(event, answer) ==
    CASE answer = "parity0" -> Ok(Signature(MinterKey, serialized_coupon(event), 0))
      [] answer = "parity1" -> Ok(Signature(MinterKey, serialized_coupon(event), 1))
      [] answer = "foreign" -> Ok(Signature(OtherKey, serialized_coupon(event), 0))
      [] OTHER -> Panic(<<>>)

Coupon_new(message, signature, icp_public_key) ==
    [message |-> message, signature |-> signature,
     icp_public_key |-> icp_public_key, recovery_id |-> <<>>]

\* Variant: the first parity is taken without comparing the recovered key.
y_parity_unchecked(coupon) == Ok([coupon EXCEPT !.recovery_id = <<0>>])

\* Coupon::y_parity: the first parity whose recovered key is the coupon's key.
y_parity(coupon) ==
    IF recover_from_msg(coupon.message, coupon.signature, 0) = coupon.icp_public_key
    THEN Ok([coupon EXCEPT !.recovery_id = <<0>>])
    ELSE IF recover_from_msg(coupon.message, coupon.signature, 1) = coupon.icp_public_key
    THEN Ok([coupon EXCEPT !.recovery_id = <<1>>])
    ELSE Panic(coupon)

\* What a call returns to its caller: a coupon, a WithdrawError, or a trap.
Reply(kind, burn_id, coupon) == [kind |-> kind, burn_id |-> burn_id, coupon |-> coupon]

\* WithdrawalEvent::to_coupon, from the oracle's answer on.
to_coupon(s, event, answer) ==
    LET signed == sign_with_ecdsa(event, answer) IN
    IF ~signed.ok THEN Reply("SigningWithEcdsaFailed", <<event.id>>, <<>>)
    ELSE IF s.ecdsa_public_key = <<>> THEN Reply("trap", <<>>, <<>>)
    ELSE LET response == y_parity(Coupon_new(serialized_coupon(event), signed.s,
                                             s.ecdsa_public_key[1]))
         IN IF response.ok THEN Reply("Coupon", <<event.id>>, <<response.s>>)
            ELSE Reply("CouponError", <<event.id>>, <<>>)

\* The call of principal p: where it is suspended, the withdrawal it works on,
\* the reply to p's last call that ended, and the reply to the last call p
\* made while that one was suspended.
IdleCall == [pc |-> "idle", op |-> "none", event |-> <<>>, reply |-> <<>>, second |-> <<>>]

WithdrawalEvent_new(id, from, amount) ==
    [id |-> id, from_icp_address |-> from, amount |-> amount,
     icp_burn_block_index |-> <<>>, coupon |-> <<>>]

update_after_burn(event, burn_block_index) ==
    [event EXCEPT !.icp_burn_block_index = <<burn_block_index>>]

update_after_redeem(event, coupon) == [event EXCEPT !.coupon = <<coupon>>]

process_withdrawal_burn_event(ctx, withdraw_event, err) ==
    process_event(ctx, WithdrawalBurnedEvent(withdraw_event, err))

process_withdrawal_redeem_event(ctx, withdraw_event) ==
    process_event(ctx, WithdrawalRedeemedEvent(withdraw_event))

\* Variant: the withdrawals of every principal are returned.
get_withdraw_info_of_all(s, user) ==
    [coupons |-> {s.withdrawal_redeemed_events[id].coupon[1] :
                     id \in {x \in DOMAIN s.withdrawal_redeemed_events :
                                s.withdrawal_redeemed_events[x].coupon # <<>>}},
     burn_ids |-> DOMAIN s.withdrawal_burned_events]

\* get_withdraw_info: the coupons of the redeemed withdrawals of `user` and
\* the burn ids of the burned ones; the State is read only.
get_withdraw_info(s, user) ==
    [coupons |-> {s.withdrawal_redeemed_events[id].coupon[1] :
                     id \in {x \in DOMAIN s.withdrawal_redeemed_events :
                                /\ s.withdrawal_redeemed_events[x].from_icp_address = user
                                /\ s.withdrawal_redeemed_events[x].coupon # <<>>}},
     burn_ids |-> {id \in DOMAIN s.withdrawal_burned_events :
                      s.withdrawal_burned_events[id].from_icp_address = user}]

\* generate_coupon, from the oracle's answer on: the message execution and
\* the reply.
generate_coupon(ctx, event, answer) ==
    LET r == to_coupon(ctx.s, event, answer) IN
    IF r.kind = "trap" THEN [ctx |-> [ctx EXCEPT !.trap = TRUE], reply |-> r]
    ELSE IF r.kind = "Coupon"
    THEN LET c == process_withdrawal_redeem_event(ctx, update_after_redeem(event, r.coupon[1]))
         IN [ctx |-> c, reply |-> IF c.trap THEN Reply("trap", <<>>, <<>>) ELSE r]
    ELSE [ctx |-> process_withdrawal_burn_event(ctx, event, Reason), reply |-> r]

\* End of a message execution of the call of principal p: when it trapped
\* the State and the log are rolled back, the call is over and its guard is
\* dropped; when the call returns its guard is dropped.
CommitCall(p, ctx, next_call) ==
    IF ctx.trap
    THEN /\ state' = retrieve_sol_guard_drop(state, p)
         /\ log' = log
         /\ calls' = [calls EXCEPT ![p] = [IdleCall EXCEPT !.reply = Reply("trap", <<>>, <<>>),
                                                           !.second = calls[p].second]]
    ELSE /\ state' = IF next_call.pc = "idle" THEN retrieve_sol_guard_drop(ctx.s, p) ELSE ctx.s
         /\ log' = ctx.log
         /\ calls' = [calls EXCEPT ![p] = next_call]

Returned(p, reply) == [IdleCall EXCEPT !.reply = reply, !.second = calls[p].second]

Suspended(p, pc, op, event) ==
    [pc |-> pc, op |-> op, event |-> event, reply |-> <<>>, second |-> <<>>]

\* A call that ends in its first message execution while another call of
\* the same principal is suspended.
Meanwhile(p, reply) ==
    /\ calls' = [calls EXCEPT ![p].second = reply]
    /\ UNCHANGED <<state, log>>

\* Variant: a call that goes on when its guard is refused.
sol_guard_ignored(g) == FALSE

\* `unwrap_or_else(|e| ic_cdk::trap(..))` after retrieve_sol_guard: the call
\* traps when the guard is refused.
sol_guard_refused(g) == ~g.ok

\* The amounts a caller can ask to withdraw.
Amounts == {0, 1}

\* Variant: an endpoint that passes every amount on.
minimum_ignored(s, amount) == FALSE

\* The withdraw endpoint: the amount is compared with the minimum before
\* withdraw_gsol is called.
below_minimum(s, amount) == amount < s.minimum_withdrawal_amount

\* The withdraw endpoint and withdraw_gsol up to the ledger call of
\* burn_gsol: the guard is taken and the burn id is allocated.
Withdraw(p, amount, max) ==
    LET g == retrieve_sol_guard(state, p)
        n == next_burn_id(g.s)
    IN /\ UNCHANGED <<log, chain, timers, runs, ledger, upgrades>>
       /\ IF below_minimum(state, amount)
          THEN IF calls[p].pc = "idle"
               THEN /\ calls' = [calls EXCEPT ![p] = Returned(p, Reply("BelowMinimum", <<>>, <<>>))]
                    /\ UNCHANGED state
               ELSE Meanwhile(p, <<Reply("BelowMinimum", <<>>, <<>>)>>)
          ELSE IF sol_guard_refused(g)
          THEN Meanwhile(p, <<Reply("trap", <<>>, <<>>)>>)
          ELSE /\ state.burn_id_counter < max
               /\ state' = n.s
               /\ calls' = [calls EXCEPT ![p] =
                               Suspended(p, "burn", "withdraw", WithdrawalEvent_new(n.id, p, amount))]

\* Variant: the burned event is recorded whatever the ledger answers.
burn_gsol_recording(ctx, event, resp) ==
    process_withdrawal_burn_event(ctx, event, IF resp = "ok" THEN <<>> ELSE Reason)

\* burn_gsol, the match on the result of transfer_from: the burned event is
\* recorded on Ok(Ok(block_index)) and nothing is on an error.
burn_gsol_result(ctx, event, resp) ==
    IF resp = "ok" THEN process_withdrawal_burn_event(ctx, event, <<>>) ELSE ctx

\* burn_gsol resumes with the ledger's answer to transfer_from; on success
\* generate_coupon goes on to the signing call.
WithdrawBurnResponse(p, resp) ==
    LET event == update_after_burn(calls[p].event, Len(ledger))
        ctx == burn_gsol_result(Ctx(state, log), event, resp)
    IN /\ calls[p].pc = "burn"
       /\ ledger' = IF resp = "ok" THEN Append(ledger, Block("burn", event.id, 0)) ELSE ledger
       /\ CommitCall(p, ctx,
                     IF resp = "ok"
                     THEN [calls[p] EXCEPT !.pc = "sign", !.event = event]
                     ELSE Returned(p, Reply(resp, <<>>, <<>>)))
       /\ UNCHANGED <<chain, timers, runs, upgrades>>

\* Variant: a lookup that signs again whatever set the withdrawal is in.
redeemed_lookup_skipped(s, burn_id) == FALSE

\* get_coupon: `events.get(&burn_id)` on the redeemed withdrawals.
redeemed_lookup(s, burn_id) == burn_id \in DOMAIN s.withdrawal_redeemed_events

\* get_coupon up to the signing call, or to its end when the withdrawal is
\* redeemed or unknown.
GetCoupon(p, burn_id, max) ==
    LET g == retrieve_sol_guard(state, p)
    IN /\ UNCHANGED <<log, chain, timers, runs, ledger, upgrades>>
       /\ IF sol_guard_refused(g)
          THEN Meanwhile(p, <<Reply("trap", <<>>, <<>>)>>)
          ELSE IF redeemed_lookup(state, burn_id)
          THEN LET redeemed_event == state.withdrawal_redeemed_events[burn_id] IN
               /\ calls' = [calls EXCEPT ![p] =
                              Returned(p, IF redeemed_event.coupon # <<>>
                                          THEN Reply("Coupon", <<burn_id>>, redeemed_event.coupon)
                                          ELSE Reply("RedeemedEventError", <<burn_id>>, <<>>))]
               /\ UNCHANGED state
          ELSE IF burn_id \in DOMAIN state.withdrawal_burned_events
          THEN /\ Len(log) < max
               /\ state' = g.s
               /\ calls' = [calls EXCEPT ![p] =
                              Suspended(p, "sign", "get_coupon",
                                        state.withdrawal_burned_events[burn_id])]
          ELSE /\ calls' = [calls EXCEPT ![p] = Returned(p, Reply("UnknownBurnId", <<burn_id>>, <<>>))]
               /\ UNCHANGED state

\* generate_coupon resumes with the oracle's answer to sign_with_ecdsa.
WithdrawSignResponse(p, answer) ==
    LET r == generate_coupon(Ctx(state, log), calls[p].event, answer)
    IN /\ calls[p].pc = "sign"
       /\ CommitCall(p, r.ctx, Returned(p, r.reply))
       /\ UNCHANGED <<chain, timers, runs, ledger, upgrades>>

\* The timer of delay 0 set by setup_timers: lazy_call_ecdsa_public_key asks
\* the oracle for the minter's key and caches it; on an error it traps and
\* the cache stays empty.
LazyPublicKey(resp) ==
    /\ "PublicKey" \in timers
    /\ timers' = timers \ {"PublicKey"}
    /\ state' = IF resp = "ok" /\ state.ecdsa_public_key = <<>>
                THEN [state EXCEPT !.ecdsa_public_key = <<MinterKey>>]
                ELSE state
    /\ UNCHANGED <<log, chain, runs, calls, ledger, upgrades>>

\* -------------------------------------------------------------- lifecycle
InitArg ==
    [solana_contract_address |-> "contract", solana_initial_signature |-> InitialSig,
     ecdsa_key_name |-> "key_1", ledger_id |-> "ledger", minimum_withdrawal_amount |-> 1]

\* The arguments init can be called with, valid and not.
InitArgs ==
    [solana_contract_address : {"contract", ""}, solana_initial_signature : {InitialSig, BlankSig},
     ecdsa_key_name : {"key_1", " "}, ledger_id : {"ledger", "anonymous"},
     minimum_withdrawal_amount : {0, 1, 2}]

\* UpgradeArg: every field is optional.
NoOverride ==
    [solana_contract_address |-> <<>>, solana_initial_signature |-> <<>>,
     ecdsa_key_name |-> <<>>, minimum_withdrawal_amount |-> <<>>]

UpgradeArgs ==
    [solana_contract_address : {<<>>, <<"contract_2">>, <<"">>},
     solana_initial_signature : {<<>>, <<1>>},
     ecdsa_key_name : {<<>>, <<"key_2">>, <<" ">>},
     minimum_withdrawal_amount : {<<>>, <<2>>, <<0>>}]

\* The canister before init.
NotInstalled == <<>>

\* init: the Init event is recorded and the State is built; when the
\* arguments are refused init traps and nothing is kept.
Install(init_arg) ==
    LET r == State_try_from(init_arg) IN
    /\ state = NotInstalled
    /\ IF r.ok
       THEN /\ state' = r.s
            /\ log' = record_event(log, Init_event(init_arg))
            /\ timers' = Timers
       ELSE UNCHANGED <<state, log, timers>>
    /\ UNCHANGED <<chain, runs, calls, ledger, upgrades>>

\* pre_upgrade writes the cursor to the log; post_upgrade rebuilds the State
\* by replay, records the Upgrade event when arguments are given, and sets
\* the timers again.  The canister is upgraded when it is stopped: no call is
\* in flight.
Upgrade(upgrade_args) ==
    LET l == record_event(log, LastKnownSolanaSignature(get_solana_last_known_signature(state)))
        r == replay_events(l)
        ctx == IF upgrade_args # <<>>
               THEN process_event(Ctx(r.s, l), Upgrade_event(upgrade_args[1]))
               ELSE Ctx(r.s, l)
    IN /\ upgrades < MaxUpgrades
       /\ \A rid \in RunIds : runs[rid].pc = "idle"
       /\ \A p \in Principals : calls[p].pc = "idle"
       /\ r.ok
       /\ ~ctx.trap
       /\ state' = ctx.s
       /\ log' = ctx.log
       /\ timers' = Timers
       /\ upgrades' = upgrades + 1
       /\ UNCHANGED <<chain, runs, calls, ledger>>

Init ==
    /\ state = State_try_from(InitArg).s
    /\ log = <<Init_event(InitArg)>>
    /\ chain = <<>>
    /\ timers = Timers
    /\ runs = [rid \in RunIds |-> IdleRun]
    /\ calls = [p \in Principals |-> IdleCall]
    /\ ledger = <<>>
    /\ upgrades = 0

\* The provider and ledger answers the tasks can get.
Responses(task) ==
    CASE task = "GetLatestSignature" -> {"ok", "err", "anomaly"}
      [] task = "ScrapSignatureRanges" -> {"ok", "err"}
      [] task = "ScrapSignatures" ->
            {"found", "RpcCallFailed", "SignatureFailed", "SignatureNotFound"}
      [] task = "MintGSol" -> {"ok", "MintingGSolFailed", "SendingMessageToLedgerFailed"}

Successes(task) == Responses(task) \cap {"ok", "found"}

GetLatestSignatureStep(answers) ==
    \E rid \in RunIds, resp \in answers : GetLatestSignatureResponse(rid, resp)

ScrapSignatureRangeStep(answers) ==
    \E rid \in RunIds, resp \in answers :
        \E range \in runs[rid].todo : ScrapSignatureRangeResponse(rid, range, resp)

ScrapSignaturesStep(answers) ==
    \E rid \in RunIds, resp \in answers :
        \E signature \in runs[rid].todo : ScrapSignaturesResponse(rid, signature, resp)

MintGSolStep(answers) ==
    \E rid \in RunIds, resp \in answers :
        \E event \in runs[rid].todo : MintGSolResponse(rid, event, resp)

TimerStep == \E rid \in RunIds : TimerFire(rid)

UpgradeStep == \E upgrade_args \in {<<>>, <<NoOverride>>} : Upgrade(upgrade_args)

TaskNext ==
    \/ TimerStep
    \/ GetLatestSignatureStep(Responses("GetLatestSignature"))
    \/ ScrapSignatureRangeStep(Responses("ScrapSignatureRanges"))
    \/ ScrapSignaturesStep(Responses("ScrapSignatures"))
    \/ MintGSolStep(Responses("MintGSol"))

\* The deposit pipeline between two upgrades.
Next ==
    \/ \E kind \in {"deposit", "other"} : SolanaTransaction(kind, MaxSig)
    \/ TaskNext

Spec == Init /\ [][Next]_vars

\* The deposit pipeline across upgrades.
UpgradeNext ==
    \/ \E kind \in {"deposit", "other"} : SolanaTransaction(kind, MaxSigUpgrade)
    \/ TaskNext
    \/ UpgradeStep

UpgradeSpec == Init /\ [][UpgradeNext]_vars

\* The burn ids a caller can ask a coupon for.
BurnIds == 0..(MaxBurns - 1)

\* The withdraw and get_coupon calls of the principals, with every answer of
\* the ledger and the oracle.
CallNext(burns, events) ==
    \/ \E p \in Principals, amount \in Amounts : Withdraw(p, amount, burns)
    \/ \E p \in Principals, resp \in {"ok", "BurningGSolFailed", "SendingMessageToLedgerFailed"} :
          WithdrawBurnResponse(p, resp)
    \/ \E p \in Principals, burn_id \in BurnIds : GetCoupon(p, burn_id, events)
    \/ \E p \in Principals, answer \in SignAnswers : WithdrawSignResponse(p, answer)
    \/ \E resp \in {"ok", "err"} : LazyPublicKey(resp)

\* The calls between two upgrades.
CallSpec == Init /\ [][CallNext(MaxBurns, MaxLog)]_vars

\* The calls across upgrades.
WithdrawNext ==
    \/ CallNext(MaxBurnsUpgrade, MaxLogUpgrade)
    \/ UpgradeStep

WithdrawSpec == Init /\ [][WithdrawNext]_vars

\* The deposit pipeline between two upgrades when the provider and the ledger
\* answer every call successfully.  Every timer that is set fires and every
\* outbound call is answered.
FairTasks ==
    \/ TimerStep
    \/ GetLatestSignatureStep(Successes("GetLatestSignature"))
    \/ ScrapSignatureRangeStep(Successes("ScrapSignatureRanges"))
    \/ ScrapSignaturesStep(Successes("ScrapSignatures"))
    \/ MintGSolStep(Successes("MintGSol"))

FairNext ==
    \/ \E kind \in {"deposit", "other"} : SolanaTransaction(kind, MaxSig)
    \/ FairTasks

FairSpec == Init /\ [][FairNext]_vars /\ WF_vars(FairTasks)

\* The deposit tasks after an upgrade that found signature 1 pending with a
\* retry count at the limit or one below it.  The State is the replay of the
\* log, as post_upgrade builds it.  In the first log signature 1 was fetched
\* and failed every time; in the second the walk of (2, initial) failed after
\* its first page, both deposits were accepted, the walk of the sub-range
\* (1, initial) made signature 1 pending again, and its fetches failed since.
RetryCounts == {SOLANA_SIGNATURE_RETRY_LIMIT - 1, SOLANA_SIGNATURE_RETRY_LIMIT}

\* The events of n failed fetches of the pending signature sig: each carries
\* the signature as the run read it.
FailedFetches(sig, n) ==
    [i \in 1..n |-> SolanaSignature([SolanaSignature_new(sig) EXCEPT !.retries = i - 1], Reason)]

PendingLog(n) ==
    <<Init_event(InitArg), LastKnownSolanaSignature(1),
      NewSolanaSignatureRange(SolanaSignatureRange_new(1, InitialSig)),
      RemoveSolanaSignatureRange(SolanaSignatureRange_new(1, InitialSig)),
      SolanaSignature(SolanaSignature_new(1), <<>>)>> \o FailedFetches(1, n)

RepeatedLog(n) ==
    <<Init_event(InitArg), LastKnownSolanaSignature(2),
      NewSolanaSignatureRange(SolanaSignatureRange_new(2, InitialSig)),
      RetrySolanaSignatureRange(SolanaSignatureRange_new(2, InitialSig),
                                <<SolanaSignatureRange_new(1, InitialSig)>>, Reason),
      SolanaSignature(SolanaSignature_new(2), <<>>),
      SolanaSignature(SolanaSignature_new(1), <<>>),
      AcceptedEvent(DepositEvent_new(0, 1), <<>>),
      AcceptedEvent(DepositEvent_new(1, 2), <<>>),
      RemoveSolanaSignatureRange(SolanaSignatureRange_new(1, InitialSig)),
      SolanaSignature(SolanaSignature_new(1), <<>>)>> \o FailedFetches(1, n)

RetryInit ==
    /\ \E n \in RetryCounts :
          \/ /\ log = PendingLog(n)
             /\ chain \in {<<"deposit">>, <<"other">>}
          \/ /\ log = RepeatedLog(n)
             /\ chain = <<"deposit", "deposit">>
    /\ state = replay_events(log).s
    /\ timers = Timers
    /\ runs = [rid \in RunIds |-> IdleRun]
    /\ calls = [p \in Principals |-> IdleCall]
    /\ ledger = <<>>
    /\ upgrades = 0

RetrySpec == RetryInit /\ [][Next]_vars

\* Installation with any arguments, then upgrades with any overrides.
ConfigInit ==
    /\ state = NotInstalled
    /\ log = <<>>
    /\ chain = <<>>
    /\ timers = {}
    /\ runs = [rid \in RunIds |-> IdleRun]
    /\ calls = [p \in Principals |-> IdleCall]
    /\ ledger = <<>>
    /\ upgrades = 0

ConfigNext ==
    \/ \E init_arg \in InitArgs : Install(init_arg)
    \/ state # NotInstalled /\ \E upgrade_arg \in UpgradeArgs : Upgrade(<<upgrade_arg>>)

ConfigSpec == ConfigInit /\ [][ConfigNext]_vars

\* The events of the logs that replay is given.
ReplayEvents ==
    {Init_event(InitArg), LastKnownSolanaSignature(1), LastKnownSolanaSignature(2),
     NewSolanaSignatureRange(SolanaSignatureRange_new(1, InitialSig)),
     RemoveSolanaSignatureRange(SolanaSignatureRange_new(1, InitialSig))}

\* post_upgrade of a canister whose stable memory holds any log: the State is
\* the one replay_events returns, and there is none when it panics.
ReplayInit ==
    /\ log \in UNION {[1..n -> ReplayEvents] : n \in 0..MaxReplayLog}
    /\ state = NotInstalled
    /\ chain = <<>>
    /\ timers = {}
    /\ runs = [rid \in RunIds |-> IdleRun]
    /\ calls = [p \in Principals |-> IdleCall]
    /\ ledger = <<>>
    /\ upgrades = 0

Replay ==
    LET r == replay_events(log) IN
    /\ upgrades = 0
    /\ upgrades' = 1
    /\ state' = IF r.ok THEN r.s ELSE NotInstalled
    /\ timers' = IF r.ok THEN Timers ELSE timers
    /\ UNCHANGED <<log, chain, runs, calls, ledger>>

ReplaySpec == ReplayInit /\ [][Replay]_vars

\* ==================================================================== claims
\* The signatures held by the four deposit maps.
pending_set == DOMAIN state.solana_signatures
accepted_set == DOMAIN state.accepted_events
minted_set == DOMAIN state.minted_events
invalid_set == DOMAIN state.invalid_events

\* The mint blocks of the ledger made for the Solana signature s.
MintBlocks(s) == {i \in DOMAIN ledger : ledger[i].op = "mint" /\ ledger[i].sol_sig = s}

\* The cursor of a State, read from its fields.
Cursor(s) ==
    IF s.solana_last_known_signature = {}
    THEN s.solana_initial_signature
    ELSE CHOOSE sig \in s.solana_last_known_signature : TRUE

\* The positions of the events appended to the log by the current step.
Appended == (Len(log) + 1) .. Len(log')

\* The fields of a State that replay has to rebuild: all but the task guards
\* and the principal guards.
Persistent(s) ==
    [f \in DOMAIN s \ {"ecdsa_public_key", "active_tasks", "withdrawing_principals"} |-> s[f]]

\* C1 (no double-mint): for every Solana signature the ledger holds at most one
\* mint block, whatever the retries, upgrades and concurrent timer firings.
C1_NoDoubleMint == \A s \in Sigs : Cardinality(MintBlocks(s)) <= 1

\* C3 (single state per signature): every signature is in at most one of the
\* pending, accepted, minted and invalid sets.
C3_SingleStatePerSignature ==
    \A s \in Sigs :
        Cardinality({m \in {"pending", "accepted", "minted", "invalid"} :
                        \/ m = "pending" /\ s \in pending_set
                        \/ m = "accepted" /\ s \in accepted_set
                        \/ m = "minted" /\ s \in minted_set
                        \/ m = "invalid" /\ s \in invalid_set}) <= 1

\* The signature s has a SolanaSignature event in the log l.
Recorded(l, s) ==
    \E i \in DOMAIN l : l[i].tag = "SolanaSignature" /\ l[i].signature.sol_sig = s

\* The signature s is the `before` of the range or lies strictly between its
\* `before` and its `until`.
Covers(range, s) == range.until_sol_sig < s /\ s <= range.before_sol_sig

\* C4 (no lost deposit): a range leaves the scan set only by a
\* RemoveSolanaSignatureRange or a RetrySolanaSignatureRange event of the same
\* step; when it is removed, its `before` and every signature the provider
\* lists strictly between `before` and `until` has a SolanaSignature event;
\* when a failing walk replaces it, every signature of it that has no
\* SolanaSignature event is covered by a range of the scan set.
C4_NoLostDeposit ==
    [][ /\ \A k \in DOMAIN state.solana_signature_ranges \ DOMAIN state'.solana_signature_ranges :
              \E i \in Appended :
                  /\ log'[i].tag \in {"RemoveSolanaSignatureRange", "RetrySolanaSignatureRange"}
                  /\ range_key(log'[i].range.before_sol_sig, log'[i].range.until_sol_sig) = k
        /\ \A i \in Appended :
              /\ log'[i].tag = "RemoveSolanaSignatureRange" =>
                    \A s \in DOMAIN chain : Covers(log'[i].range, s) => Recorded(log', s)
              /\ log'[i].tag = "RetrySolanaSignatureRange" =>
                    \A s \in DOMAIN chain :
                        Covers(log'[i].range, s) =>
                            \/ Recorded(log', s)
                            \/ \E k \in DOMAIN state'.solana_signature_ranges :
                                  Covers(state'.solana_signature_ranges[k], s)
      ]_vars

\* A walk failed part-way, its range was replaced by the sub-range left to
\* walk, and that sub-range was later walked to its end and removed.
C4_Witness ==
    \E i, j \in DOMAIN log :
        /\ i < j
        /\ log[i].tag = "RetrySolanaSignatureRange"
        /\ log[i].failed_sub_range # <<>>
        /\ log[i].failed_sub_range[1].before_sol_sig # log[i].range.before_sol_sig
        /\ log[j].tag = "RemoveSolanaSignatureRange"
        /\ log[j].range = log[i].failed_sub_range[1]

\* C5 (liveness of ingestion): when timers fire and the provider and the ledger
\* answer every call successfully, a valid deposit is eventually in the minted
\* set.  Stated for the deposits that are accepted while the timer of the mint
\* task is still to fire, so that the mint task does run on them.
C5_EventuallyMinted ==
    \A s \in Sigs :
        (s \in DOMAIN chain /\ chain[s] = "deposit" /\ s \in accepted_set /\ "MintGSol" \in timers)
            ~> (s \in minted_set)

\* The deposit ids and the burn ids given to the deposits and withdrawals of the log.
FreshDeposits == {i \in DOMAIN log : log[i].tag = "AcceptedEvent" /\ log[i].fail_reason = <<>>}
FreshBurns == {i \in DOMAIN log : log[i].tag = "WithdrawalBurnedEvent" /\ log[i].fail_reason = <<>>}

\* C6 (ID uniqueness): the deposit_id values of the deposits are pairwise
\* distinct, and so are the burn_id values of the withdrawals.
C6_IdsDistinct ==
    /\ \A i, j \in FreshDeposits : i # j => log[i].event_source.id # log[j].event_source.id
    /\ \A i, j \in FreshBurns : i # j => log[i].event_source.id # log[j].event_source.id

\* C7 (log/state equivalence): replaying the log from the Init event gives the
\* in-memory State on every field but the guards.
C7_ReplayEqualsState ==
    LET r == replay_events(log) IN r.ok /\ Persistent(r.s) = Persistent(state)

\* C8 (event-sourcing): a step that changes a persistent field of the State
\* appends events to the log, and the change is the one made by applying them.
C8_ChangeOnlyByEvents ==
    [][ Persistent(state') # Persistent(state) =>
            /\ Len(log') > Len(log)
            /\ LET r == replay_from(Ok(state), log', Len(log) + 1)
               IN r.ok /\ Persistent(r.s) = Persistent(state')
      ]_vars

\* C9 (cursor monotonicity): the cursor never moves back, and every
\* LastKnownSolanaSignature event logged by get_latest_signature carries a
\* signature strictly newer than the cursor it replaces.
C9_CursorMonotonic ==
    [][ /\ Cursor(state') >= Cursor(state)
        /\ \A i \in Appended :
              log'[i].tag = "LastKnownSolanaSignature" => log'[i].sig > Cursor(state)
      ]_vars

\* get_latest_signature moved the cursor twice.
C9_Witness ==
    \E i, j \in DOMAIN log :
        /\ i < j
        /\ log[i].tag = "LastKnownSolanaSignature"
        /\ log[j].tag = "LastKnownSolanaSignature"
        /\ log[i].sig < log[j].sig
        /\ Cursor(state) = log[j].sig

\* The futures that are inside `task`, suspended at an outbound call.
InFlight(rs, task) == {rid \in RunIds : rs[rid].task = task /\ rs[rid].pc = "await"}

\* C10 (task exclusion): at most one run of each task type is in flight, the
\* task is in active_tasks exactly while a run of it is in flight, and a timer
\* that fires while its task is in flight returns from that task without an
\* outbound call for it and without an event.
C10_TaskExclusion ==
    [][ /\ \A task \in TaskType :
              /\ Cardinality(InFlight(runs', task)) <= 1
              /\ task \in state'.active_tasks <=> InFlight(runs', task) # {}
        /\ \A rid \in RunIds :
              (rid \in timers /\ rid \notin timers' /\ InFlight(runs, FirstTask(rid)) # {}) =>
                  /\ log' = log
                  /\ runs'[rid].task # FirstTask(rid)
                  /\ InFlight(runs', FirstTask(rid)) = InFlight(runs, FirstTask(rid))
      ]_vars

\* The timer of get_latest_signature has fired while the start-up chain was
\* inside get_latest_signature, and its future has returned.
C10_Witness ==
    /\ runs["startup"].task = "GetLatestSignature"
    /\ runs["startup"].pc = "await"
    /\ "GetLatestSignature" \notin timers
    /\ runs["GetLatestSignature"].pc = "idle"

\* The calls a range walk can still make for the range r: one for every
\* signature between the walk's `before` and the range's `until`.
RangeCost(run, r) ==
    IF run.range = <<r>>
    THEN run.before_signature - r.until_sol_sig
    ELSE r.before_sol_sig - r.until_sol_sig

RECURSIVE SumCost(_, _)
SumCost(run, ranges) ==
    IF ranges = {} THEN 0
    ELSE LET r == CHOOSE x \in ranges : TRUE
         IN RangeCost(run, r) + SumCost(run, ranges \ {r})

\* A bound on the outbound calls a task future can still make.
Measure(run) ==
    CASE run.pc # "await" -> 0
      [] run.task = "GetLatestSignature" -> 1
      [] run.task = "ScrapSignatureRanges" -> SumCost(run, run.todo)
      [] OTHER -> Cardinality(run.todo)

TrapReply == Reply("trap", <<>>, <<>>)

Kind(reply) == IF reply = <<>> THEN "none" ELSE reply.kind

\* The withdrawals the canister knows: of the calls in flight, of the two
\* sets, and of the events of the log.
Withdrawals ==
    {calls[p].event : p \in {q \in Principals : calls[q].pc # "idle"}}
    \cup {state.withdrawal_burned_events[i] : i \in DOMAIN state.withdrawal_burned_events}
    \cup {state.withdrawal_redeemed_events[i] : i \in DOMAIN state.withdrawal_redeemed_events}
    \cup {log[i].event_source :
            i \in {j \in DOMAIN log :
                     log[j].tag \in {"WithdrawalBurnedEvent", "WithdrawalRedeemedEvent"}}}

\* C12 (per-principal withdrawal lock): while a call of principal p is
\* suspended, p is in withdrawing_principals and a second call by p ends at
\* once with State, log and ledger unchanged; the suspended call is not
\* replaced, so no burn id is allocated to p; when the call ends, with a
\* reply or a trap, p is out of withdrawing_principals.
C12_PrincipalLock ==
    [][ \A p \in Principals :
            /\ (calls'[p].pc # "idle") <=> (p \in state'.withdrawing_principals)
            /\ (calls[p].pc # "idle" /\ calls'[p].pc # "idle") =>
                   /\ calls'[p].op = calls[p].op
                   /\ calls'[p].event.id = calls[p].event.id
            /\ (calls[p].pc # "idle" /\ calls'[p].second # calls[p].second) =>
                   /\ calls'[p] = [calls[p] EXCEPT !.second = calls'[p].second]
                   /\ UNCHANGED <<state, log, ledger>>
      ]_vars

\* A second withdraw call of a principal was refused while the first was
\* suspended, and the first has ended with a coupon.
C12_Witness ==
    \E p \in Principals :
        /\ calls[p].pc = "idle"
        /\ calls[p].second = <<TrapReply>>
        /\ Kind(calls[p].reply) = "Coupon"
        /\ p \notin state.withdrawing_principals

LedgerErrors == {"BurningGSolFailed", "SendingMessageToLedgerFailed"}

\* C14 (failed burn): when the call of a principal leaves its ledger call and
\* the ledger has no new block, the call ends with the ledger's typed error
\* and no coupon, the log has no new event and the burned and redeemed
\* withdrawals are unchanged.
C14_FailedBurnRecordsNothing ==
    [][ \A p \in Principals :
            (calls[p].pc = "burn" /\ calls'[p] # calls[p]
                /\ calls'[p].second = calls[p].second /\ ledger' = ledger) =>
                /\ calls'[p].pc = "idle"
                /\ Kind(calls'[p].reply) \in LedgerErrors
                /\ calls'[p].reply.coupon = <<>>
                /\ log' = log
                /\ state'.withdrawal_burned_events = state.withdrawal_burned_events
                /\ state'.withdrawal_redeemed_events = state.withdrawal_redeemed_events
      ]_vars

\* Both kinds of ledger failure have been returned and nothing was recorded.
C14_Witness ==
    /\ \E p \in Principals : Kind(calls[p].reply) = "BurningGSolFailed"
    /\ \E p \in Principals : Kind(calls[p].reply) = "SendingMessageToLedgerFailed"
    /\ Len(log) = 1
    /\ state.burn_id_counter = 2
\* C15 (forward only): after every step no burn id is both in the burned and
\* in the redeemed withdrawals, and a burn id that was redeemed is still
\* redeemed with the same coupon.
C15_ForwardOnly ==
    [][ /\ DOMAIN state'.withdrawal_burned_events
              \cap DOMAIN state'.withdrawal_redeemed_events = {}
        /\ \A id \in DOMAIN state.withdrawal_redeemed_events :
              /\ id \in DOMAIN state'.withdrawal_redeemed_events
              /\ state'.withdrawal_redeemed_events[id].coupon
                     = state.withdrawal_redeemed_events[id].coupon
      ]_vars
\* C16 (signature failure after the burn): when a withdraw call ends with
\* SigningWithEcdsaFailed, the reply carries the burn id, the withdrawal is in
\* the burned withdrawals with the block index of its burn, it is not in the
\* redeemed withdrawals, and the ledger has no new block.
C16_SignFailureKeepsBurned ==
    [][ \A p \in Principals :
            (calls[p].pc = "sign" /\ calls[p].op = "withdraw"
                /\ Kind(calls'[p].reply) = "SigningWithEcdsaFailed") =>
                LET event == calls[p].event IN
                /\ calls'[p].pc = "idle"
                /\ calls'[p].reply.burn_id = <<event.id>>
                /\ event.id \in DOMAIN state'.withdrawal_burned_events
                /\ event.icp_burn_block_index # <<>>
                /\ state'.withdrawal_burned_events[event.id].icp_burn_block_index
                       = event.icp_burn_block_index
                /\ event.id \notin DOMAIN state'.withdrawal_redeemed_events
                /\ ledger' = ledger
      ]_vars
\* C17 (no burned withdrawal is stuck): once the timer of the key fetch has
\* fired, when a get_coupon call of the owner of a burned withdrawal ends and
\* the oracle has signed (the call ends neither with SigningWithEcdsaFailed
\* nor with CouponError), the call returns a coupon and the withdrawal is in
\* the redeemed withdrawals.
C17_BurnedIsRedeemable ==
    [][ \A p \in Principals :
            (calls[p].pc = "sign" /\ calls[p].op = "get_coupon"
                /\ calls[p].event.from_icp_address = p
                /\ "PublicKey" \notin timers
                /\ calls'[p].pc = "idle"
                /\ Kind(calls'[p].reply) \notin {"SigningWithEcdsaFailed", "CouponError"}) =>
                /\ Kind(calls'[p].reply) = "Coupon"
                /\ calls[p].event.id \in DOMAIN state'.withdrawal_redeemed_events
      ]_vars

\* C18 (lookup of a redeemed withdrawal): a get_coupon call does not go to
\* the oracle for a redeemed withdrawal and does not answer UnknownBurnId for
\* it; a call that returns a coupon in its first message execution returns
\* the coupon stored in the redeemed withdrawal and leaves State, log and
\* ledger unchanged; every redeemed withdrawal has a coupon.
C18_RedeemedLookup ==
    [][ /\ \A id \in DOMAIN state'.withdrawal_redeemed_events :
              state'.withdrawal_redeemed_events[id].coupon # <<>>
        /\ \A p \in Principals :
              (calls[p].pc = "idle" /\ calls'[p] # calls[p]) =>
                  /\ (calls'[p].pc = "sign") =>
                        calls'[p].event.id \notin DOMAIN state.withdrawal_redeemed_events
                  /\ (calls'[p].pc = "idle" /\ Kind(calls'[p].reply) = "UnknownBurnId") =>
                        calls'[p].reply.burn_id[1] \notin DOMAIN state.withdrawal_redeemed_events
                  /\ (calls'[p].pc = "idle" /\ Kind(calls'[p].reply) = "Coupon") =>
                        LET id == calls'[p].reply.burn_id[1] IN
                        /\ id \in DOMAIN state.withdrawal_redeemed_events
                        /\ calls'[p].reply.coupon = state.withdrawal_redeemed_events[id].coupon
                        /\ UNCHANGED <<state, log, ledger>>
      ]_vars

\* One signature was made and two principals hold the coupon: one of them got
\* it by a lookup of the redeemed withdrawal.
C18_Witness ==
    /\ Len(log) = 3
    /\ \E id \in DOMAIN state.withdrawal_redeemed_events :
          \A p \in Principals :
              /\ calls[p].pc = "idle"
              /\ calls[p].reply = Reply("Coupon", <<id>>, state.withdrawal_redeemed_events[id].coupon)

\* C19 (coupons go to the owner): a call of principal p asks the oracle to
\* sign only withdrawals made by p, and a coupon returned to p is of a
\* withdrawal made by p.
C19_OwnerOnly ==
    \A p \in Principals :
        /\ calls[p].pc # "idle" => calls[p].event.from_icp_address = p
        /\ Kind(calls[p].reply) = "Coupon" =>
               calls[p].reply.coupon[1].message.from_icp_address = p

\* The coupons returned to the callers and stored in the State and the log.
Coupons ==
    {calls[p].reply.coupon[1] : p \in {q \in Principals : Kind(calls[q].reply) = "Coupon"}}
    \cup {w.coupon[1] : w \in {x \in Withdrawals : x.coupon # <<>>}}

\* C20 (coupons are valid): every coupon returned or stored has a recovery id
\* 0 or 1 with which the key recovered from its message and signature is the
\* minter's key, and its signature verifies under that key.
C20_CouponsValid ==
    \A c \in Coupons :
        /\ c.recovery_id \in {<<0>>, <<1>>}
        /\ recover_from_msg(c.message, c.signature, c.recovery_id[1]) = MinterKey
        /\ c.icp_public_key = MinterKey
        /\ verify(c)

\* Coupons of both parities are stored and a signature that is not of the
\* minter's key was refused.
C20_Witness ==
    /\ \E p \in Principals : Kind(calls[p].reply) = "CouponError"
    /\ \E c \in Coupons : c.recovery_id = <<0>>
    /\ \E c \in Coupons : c.recovery_id = <<1>>
\* ---------------------------------------------------------------- timers
\* C21 (start-up order): the future of the immediate timer runs the four
\* tasks in order, so when its scrap_signatures ends with events recorded and
\* an accepted deposit is there to mint, mint_gsol is running: the MintGSol
\* lock is held, by this future or by the one that made it yield.
C21_StartupRunsAllFour ==
    [][ ( /\ runs["startup"].pc = "await"
          /\ runs["startup"].task = "ScrapSignatures"
          /\ ~(runs'["startup"].pc = "await" /\ runs'["startup"].task = "ScrapSignatures")
          /\ Len(log') > Len(log)
          /\ Filter(state'.accepted_events, MINT_GSOL_RETRY_LIMIT) # {} )
        => "MintGSol" \in state'.active_tasks
      ]_vars

\* C22 (periodic timers): at every point in time a tick of the timer of each
\* task is still to come.
C22_TimersPeriodic ==
    \A task \in TaskType : []<>(task \in timers)
\* ----------------------------------------------------------- configuration
ConfigFields ==
    {"solana_contract_address", "solana_initial_signature", "ecdsa_key_name",
     "minimum_withdrawal_amount"}

Collections ==
    {"solana_last_known_signature", "solana_signature_ranges", "solana_signatures",
     "invalid_events", "accepted_events", "minted_events", "withdrawal_burned_events",
     "withdrawal_redeemed_events", "burn_id_counter", "deposit_id_counter"}

\* C23 (configuration invariant): the canister has a State exactly when its
\* log starts with Init, and then the key name and the contract address are
\* not blank, the ledger is not the anonymous principal and the minimum
\* withdrawal amount is positive, whatever init and the upgrades were given.
C23_ConfigValid ==
    /\ (state = NotInstalled) <=> (log = <<>>)
    /\ state # NotInstalled =>
          /\ log[1].tag = "Init"
          /\ ~Blank(state.ecdsa_key_name)
          /\ state.ledger_id # "anonymous"
          /\ ~Blank(state.solana_contract_address)
          /\ state.minimum_withdrawal_amount > 0

\* The canister was upgraded with a blank key name and a minimum of 0.
C23_Witness ==
    /\ state # NotInstalled
    /\ \E i \in DOMAIN log :
          /\ log[i].tag = "Upgrade"
          /\ log[i].upgrade_arg.ecdsa_key_name = <<" ">>
          /\ log[i].upgrade_arg.minimum_withdrawal_amount = <<0>>

\* The overrides that pass validation.
ValidOverride(a) ==
    /\ a.solana_contract_address # <<"">>
    /\ a.ecdsa_key_name # <<" ">>
    /\ a.minimum_withdrawal_amount # <<0>>

\* C24 (upgrade overrides): a step that records Upgrade with valid overrides
\* leaves every provided configuration field with the provided value, and
\* every other configuration field and every collection as it was.
C24_UpgradeOverrides ==
    [][ (Len(log') > Len(log) /\ log'[Len(log')].tag = "Upgrade"
            /\ ValidOverride(log'[Len(log')].upgrade_arg)) =>
            LET a == log'[Len(log')].upgrade_arg IN
            /\ \A f \in ConfigFields :
                  state'[f] = IF a[f] # <<>> THEN a[f][1] ELSE state[f]
            /\ \A f \in Collections : state'[f] = state[f]
      ]_vars
\* ------------------------------------------------------------------ replay
\* The events of l up to the n-th, applied one after the other to the State
\* built from the first.
RECURSIVE ApplyInOrder(_, _)
ApplyInOrder(l, n) ==
    IF n = 1 THEN State_try_from(l[1].init_arg)
    ELSE LET r == ApplyInOrder(l, n - 1) IN
         IF r.ok THEN apply_state_transition(r.s, l[n]) ELSE r

\* C25 (replay and Init): replay of an empty log, of a log whose first event
\* is not Init, or of a log with an Init event after the first panics and
\* gives no State; replay of any other log gives the State reached by
\* applying the events after the first in the order of the log.
C25_ReplayInitFirst ==
    upgrades = 1 =>
        IF \/ log = <<>>
           \/ log[1].tag # "Init"
           \/ \E i \in 2..Len(log) : log[i].tag = "Init"
        THEN state = NotInstalled
        ELSE LET r == ApplyInOrder(log, Len(log)) IN
             state = IF r.ok THEN r.s ELSE NotInstalled

\* A log with two cursors was replayed: the State has the later one.
C25_Witness ==
    /\ upgrades = 1
    /\ log = <<Init_event(InitArg), LastKnownSolanaSignature(2), LastKnownSolanaSignature(1)>>
    /\ state # NotInstalled
    /\ state.solana_last_known_signature = {1}
\* ------------------------------------------------------------ tasks A and B
\* A run of `task` gets an answer in this step.
Answered(rid, task) ==
    /\ runs[rid].task = task
    /\ runs[rid].pc = "await"
    /\ runs'[rid] # runs[rid]

\* C26 (new head): when get_latest_signature records events on its answer,
\* they are LastKnownSolanaSignature(s) and then NewSolanaSignatureRange(s,
\* cursor), appended in one step, where s is the newest signature of the
\* source program and cursor the cursor before the step; afterwards the cursor
\* is s and the range (s, cursor) is in the range map with no retries.
C26_NewHeadRecorded ==
    [][ \A rid \in RunIds :
            (Answered(rid, "GetLatestSignature") /\ log' # log) =>
                LET s == Len(chain)
                    cursor == Cursor(state)
                    range == SolanaSignatureRange_new(s, cursor)
                IN /\ s > cursor
                   /\ log' = log \o <<LastKnownSolanaSignature(s), NewSolanaSignatureRange(range)>>
                   /\ Cursor(state') = s
                   /\ state'.solana_last_known_signature = {s}
                   /\ range_key(s, cursor) \in DOMAIN state'.solana_signature_ranges
                   /\ state'.solana_signature_ranges[range_key(s, cursor)] = range
      ]_vars

\* A second head was found: its range ends at the first head, not at the
\* initial signature.
C26_Witness ==
    /\ range_key(2, 1) \in DOMAIN state.solana_signature_ranges
    /\ range_key(1, InitialSig) \in DOMAIN state.solana_signature_ranges
    /\ state.solana_last_known_signature = {2}

\* C27 (no new head): when the provider has no signature newer than the
\* cursor, the answer to get_latest_signature records no event; and whatever
\* the answer, a step that does not record both events of a new head records
\* none and leaves every persistent field as it was.
C27_NoHeadNoEvent ==
    [][ \A rid \in RunIds :
            Answered(rid, "GetLatestSignature") =>
                /\ Len(chain) <= Cursor(state) => log' = log
                /\ Len(log') # Len(log) + 2 =>
                      /\ log' = log
                      /\ Persistent(state') = Persistent(state)
      ]_vars

\* The timer of get_latest_signature has fired and its run has ended with
\* nothing recorded while a signature was there.
C27_Witness ==
    /\ "GetLatestSignature" \notin timers
    /\ "startup" \in timers
    /\ runs["GetLatestSignature"].pc = "idle"
    /\ chain # <<>>
    /\ log = <<Init_event(InitArg)>>
\* The signatures of the range, newest first: its `before` and every
\* signature between `before` and `until`.
SignaturesOf(range) ==
    [k \in 1..(range.before_sol_sig - range.until_sol_sig) |-> range.before_sol_sig - k + 1]

\* C28 (walk of a range): an answer with a page of signatures records
\* nothing and moves the walk's `before` to the last signature of the page;
\* the answer with an empty page ends the walk: it records the removal of the
\* range and then one SolanaSignature event for the range's `before` and one
\* for every signature of the pages, each exactly once; afterwards the range
\* is gone and these signatures are pending.
C28_RangeWalk ==
    [][ \A rid \in RunIds :
            Answered(rid, "ScrapSignatureRanges") =>
                /\ (runs'[rid].pc = "await" /\ runs'[rid].range # <<>>) =>
                      LET page == get_signatures_for_address(chain,
                                      GET_SIGNATURES_BY_ADDRESS_LIMIT,
                                      <<IF runs[rid].range = <<>>
                                        THEN runs'[rid].range[1].before_sol_sig
                                        ELSE runs[rid].before_signature>>,
                                      runs'[rid].range[1].until_sol_sig)
                      IN /\ log' = log
                         /\ page # <<>>
                         /\ runs'[rid].before_signature = page[Len(page)]
                /\ \A i \in Appended :
                      log'[i].tag = "RemoveSolanaSignatureRange" =>
                          LET range == log'[i].range
                              sigs == SignaturesOf(range)
                          IN /\ i = Len(log) + 1
                             /\ SubSeq(log', i + 1, Len(log'))
                                   = [k \in DOMAIN sigs |->
                                        SolanaSignature(SolanaSignature_new(sigs[k]), <<>>)]
                             /\ range_key(range.before_sol_sig, range.until_sol_sig)
                                   \notin DOMAIN state'.solana_signature_ranges
                             /\ \A k \in DOMAIN sigs : sigs[k] \in DOMAIN state'.solana_signatures
      ]_vars

\* The range (2, initial) was walked with a page and then an empty page, no
\* call failed, and both signatures are pending.
C28_Witness ==
    /\ \E i \in DOMAIN log :
          /\ log[i].tag = "RemoveSolanaSignatureRange"
          /\ log[i].range = SolanaSignatureRange_new(2, InitialSig)
    /\ \A i \in DOMAIN log : log[i].tag # "RetrySolanaSignatureRange"
    /\ DOMAIN state.solana_signatures = {1, 2}
\* C29 (failed walk): an answer that ends the walk of a range without
\* removing it appends RetrySolanaSignatureRange with that range and the
\* sub-range (current before, range.until); afterwards the sub-range stands in
\* the map in place of the range, the other ranges are untouched, and the run
\* goes on with the ranges left in its scan set.
C29_FailedWalk ==
    [][ \A rid \in RunIds :
            (/\ Answered(rid, "ScrapSignatureRanges")
             /\ \E i \in Appended : log'[i].tag = "RetrySolanaSignatureRange") =>
                LET run == runs[rid]
                    retry == log'[Len(log) + 1]
                    range == retry.range
                    current == IF run.range = <<>> THEN range.before_sol_sig
                               ELSE run.before_signature
                    sub == SolanaSignatureRange_new(current, range.until_sol_sig)
                    key == range_key(range.before_sol_sig, range.until_sol_sig)
                    sub_key == range_key(current, range.until_sol_sig)
                    left == run.todo \ {range}
                IN /\ retry.tag = "RetrySolanaSignatureRange"
                   /\ range \in run.todo
                   /\ run.range # <<>> => range = run.range[1]
                   /\ retry.failed_sub_range = <<sub>>
                   /\ \A i \in Appended \ {Len(log) + 1} : log'[i].tag = "SolanaSignature"
                   /\ DOMAIN state'.solana_signature_ranges
                         = (DOMAIN state.solana_signature_ranges \ {key}) \cup {sub_key}
                   /\ state'.solana_signature_ranges[sub_key] = sub
                   /\ \A k \in DOMAIN state.solana_signature_ranges \ {key, sub_key} :
                         state'.solana_signature_ranges[k] = state.solana_signature_ranges[k]
                   /\ left # {} => runs'[rid] = [Awaiting("ScrapSignatureRanges")
                                                    EXCEPT !.todo = left]
                   /\ left = {} => runs'[rid].task # "ScrapSignatureRanges"
      ]_vars

\* The walk of (2, initial) failed after the page [1]: the sub-range
\* (1, initial) stands in the map in place of (2, initial).
C29_Witness ==
    /\ \E i \in DOMAIN log :
          /\ log[i].tag = "RetrySolanaSignatureRange"
          /\ log[i].range = SolanaSignatureRange_new(2, InitialSig)
          /\ log[i].failed_sub_range = <<SolanaSignatureRange_new(1, InitialSig)>>
    /\ range_key(1, InitialSig) \in DOMAIN state.solana_signature_ranges
    /\ range_key(2, InitialSig) \notin DOMAIN state.solana_signature_ranges
\* C30 (range retries): when a walk of a range fails, the range that stands
\* for it in the map afterwards has one retry more than the range had.
C30_RetriesCounted ==
    [][ \A rid \in RunIds :
            (/\ Answered(rid, "ScrapSignatureRanges")
             /\ \E i \in Appended : log'[i].tag = "RetrySolanaSignatureRange") =>
                LET retry == log'[Len(log) + 1]
                    key == range_key(retry.range.before_sol_sig, retry.range.until_sol_sig)
                    sub == retry.failed_sub_range[1]
                    sub_key == range_key(sub.before_sol_sig, sub.until_sol_sig)
                IN state'.solana_signature_ranges[sub_key].retries
                      = state.solana_signature_ranges[key].retries + 1
      ]_vars
\* ------------------------------------------------ claims: tasks C and D
\* A run of `task` that awaits an answer.
AwaitingRuns(task) == {rid \in RunIds : runs[rid].task = task /\ runs[rid].pc = "await"}

FetchErrors == {"RpcCallFailed", "SignatureFailed", "SignatureNotFound"}

\* The events that the message execution ending in ctx adds to the log.
NewEvents(ctx) == {ctx.log[i] : i \in (Len(log) + 1)..Len(ctx.log)}

\* C31 (fetch retry): whenever the fetch of a pending signature ends in a
\* transport error, an error of the entry or an absent result, the message
\* execution records SolanaSignature with the reason; the signature stays
\* pending with one retry more and is added to no other map.
C31_FetchRetry ==
    \A rid \in AwaitingRuns("ScrapSignatures") :
        \A signature \in runs[rid].todo, resp \in FetchErrors :
            LET sig == signature.sol_sig
                ctx == process_signatures_answer(Ctx(state, log), runs[rid], signature, resp).ctx
            IN sig \in DOMAIN state.solana_signatures =>
                  /\ ~ctx.trap
                  /\ SolanaSignature(signature, Reason) \in NewEvents(ctx)
                  /\ sig \in DOMAIN ctx.s.solana_signatures
                  /\ ctx.s.solana_signatures[sig].retries
                        = state.solana_signatures[sig].retries + 1
                  /\ sig \in DOMAIN ctx.s.accepted_events => sig \in DOMAIN state.accepted_events
                  /\ sig \notin DOMAIN ctx.s.minted_events
                  /\ sig \notin DOMAIN ctx.s.invalid_events
\* The provider answers the last chunk of the run rid of scrap_signatures,
\* the one holding `signature`, with resp.
LastChunk(rid, signature, resp) ==
    /\ rid \in AwaitingRuns("ScrapSignatures")
    /\ runs[rid].todo = {signature}
    /\ resp \in {"found"} \cup FetchErrors
    /\ resp = "found" => signature.sol_sig \in DOMAIN chain

\* C32 (accepted deposit): at the end of a run of scrap_signatures every
\* fetched transaction that is a deposit gets the next deposit id and an
\* AcceptedEvent; afterwards its signature is in the accepted map with that
\* id and is not pending.
C32_DepositAccepted ==
    \A rid \in RunIds, resp \in {"found"} \cup FetchErrors :
        \A signature \in runs[rid].todo :
            LastChunk(rid, signature, resp) =>
                LET answer == process_signatures_answer(Ctx(state, log), runs[rid],
                                                        signature, resp)
                    ctx == answer.ctx
                IN \A i \in DOMAIN answer.transactions :
                      LET sig == answer.transactions[i].signature.sol_sig IN
                      answer.transactions[i].transaction.kind = "deposit" =>
                          /\ ~ctx.trap
                          /\ \E e \in NewEvents(ctx) :
                                /\ e.tag = "AcceptedEvent" /\ e.fail_reason = <<>>
                                /\ e.event_source.sol_sig = sig
                                /\ e.event_source.id \in
                                      state.deposit_id_counter .. (ctx.s.deposit_id_counter - 1)
                                /\ sig \in DOMAIN ctx.s.accepted_events
                                /\ ctx.s.accepted_events[sig].id = e.event_source.id
                          /\ sig \notin DOMAIN ctx.s.solana_signatures
\* C33 (invalid transaction): at the end of a run of scrap_signatures every
\* fetched transaction that is not a valid deposit gets an InvalidEvent and
\* the message execution does not trap; afterwards its signature is in the
\* invalid map and is not pending, and deposit ids are consumed by the
\* deposits of the run only.
C33_InvalidRecorded ==
    \A rid \in RunIds, resp \in {"found"} \cup FetchErrors :
        \A signature \in runs[rid].todo :
            LastChunk(rid, signature, resp) =>
                LET answer == process_signatures_answer(Ctx(state, log), runs[rid],
                                                        signature, resp)
                    ctx == answer.ctx
                    deposits == {i \in DOMAIN answer.transactions :
                                    answer.transactions[i].transaction.kind = "deposit"}
                IN \A i \in DOMAIN answer.transactions \ deposits :
                      LET sig == answer.transactions[i].signature.sol_sig IN
                      /\ ~ctx.trap
                      /\ \E e \in NewEvents(ctx) :
                            e.tag = "InvalidEvent" /\ e.signature.sol_sig = sig
                      /\ sig \in DOMAIN ctx.s.invalid_events
                      /\ sig \notin DOMAIN ctx.s.solana_signatures
                      /\ ctx.s.deposit_id_counter
                            = state.deposit_id_counter + Cardinality(deposits)
\* C35 (mint recorded): whenever the ledger answers the transfer for an
\* accepted deposit with Ok(block_index), the message execution records
\* MintedEvent with that block index; afterwards the deposit's signature is in
\* the minted map with the block index and is not in the accepted map.
C35_MintRecorded ==
    \A rid \in AwaitingRuns("MintGSol") :
        \A event \in runs[rid].todo :
            LET block_index == Len(ledger)
                minted == update_mint_block_index(event, block_index)
                ctx == mint_gsol_match(Ctx(state, log), event, "ok", block_index)
            IN /\ ~ctx.trap
               /\ MintedEvent(minted) \in NewEvents(ctx)
               /\ event.sol_sig \in DOMAIN ctx.s.minted_events
               /\ ctx.s.minted_events[event.sol_sig].icp_mint_block_index = <<block_index>>
               /\ event.sol_sig \notin DOMAIN ctx.s.accepted_events

MintErrors == {"MintingGSolFailed", "SendingMessageToLedgerFailed"}

\* C36 (mint retry): whenever the ledger transfer for an accepted deposit
\* fails, the message execution records AcceptedEvent with the reason; the
\* deposit stays in the accepted map under its signature and id with one
\* retry more and is not in the minted map.
C36_MintRetry ==
    \A rid \in AwaitingRuns("MintGSol") :
        \A event \in runs[rid].todo, resp \in MintErrors :
            LET sig == event.sol_sig
                ctx == mint_gsol_match(Ctx(state, log), event, resp, Len(ledger))
            IN sig \in DOMAIN state.accepted_events =>
                  /\ ~ctx.trap
                  /\ AcceptedEvent(event, Reason) \in NewEvents(ctx)
                  /\ sig \in DOMAIN ctx.s.accepted_events
                  /\ ctx.s.accepted_events[sig].id = state.accepted_events[sig].id
                  /\ ctx.s.accepted_events[sig].retries
                        = state.accepted_events[sig].retries + 1
                  /\ sig \notin DOMAIN ctx.s.minted_events
\* The run rid starts `task` in this step.
Started(rid, task) ==
    /\ runs'[rid].task = task
    /\ runs'[rid].pc = "await"
    /\ runs[rid].task # task

\* A run of scrap_signatures in flight holds the signature sig.
Held(sig) ==
    \E rid \in AwaitingRuns("ScrapSignatures") :
        \/ \E signature \in runs[rid].todo : signature.sol_sig = sig
        \/ \E i \in DOMAIN runs[rid].transactions :
              runs[rid].transactions[i].signature.sol_sig = sig

\* C37 (retry limits): a run of scrap_signatures takes the pending signatures
\* whose retry count is below the limit and no other, a run of mint_gsol the
\* accepted deposits whose retry count is below the limit and no other; a
\* pending signature at the limit that no run in flight holds stays in the
\* pending map, and no retry count ever wraps around.
C37_RetryLimits ==
    [][ /\ \A rid \in RunIds :
              /\ Started(rid, "ScrapSignatures") =>
                    runs'[rid].todo =
                        {state'.solana_signatures[k] :
                            k \in {x \in DOMAIN state'.solana_signatures :
                                      state'.solana_signatures[x].retries
                                         < SOLANA_SIGNATURE_RETRY_LIMIT}}
              /\ Started(rid, "MintGSol") =>
                    runs'[rid].todo =
                        {state'.accepted_events[k] :
                            k \in {x \in DOMAIN state'.accepted_events :
                                      state'.accepted_events[x].retries
                                         < MINT_GSOL_RETRY_LIMIT}}
        /\ \A sig \in DOMAIN state.solana_signatures :
              /\ (state.solana_signatures[sig].retries >= SOLANA_SIGNATURE_RETRY_LIMIT
                    /\ ~Held(sig)) => sig \in DOMAIN state'.solana_signatures
              /\ sig \in DOMAIN state'.solana_signatures =>
                    /\ state'.solana_signatures[sig].retries
                          >= state.solana_signatures[sig].retries
                    /\ state'.solana_signatures[sig].retries < U8 - 1
        /\ \A sig \in DOMAIN state.accepted_events \cap DOMAIN state'.accepted_events :
              /\ state'.accepted_events[sig].retries >= state.accepted_events[sig].retries
              /\ state'.accepted_events[sig].retries < U8 - 1
      ]_vars
\* ------------------------------------------------ claims: transitions
\* The ranges and the events that the preconditions are tried on.
Ranges == {SolanaSignatureRange_new(b, u) : b \in Sigs, u \in InitialSig..MaxSig}

GuardedEvents ==
    {NewSolanaSignatureRange(r) : r \in Ranges}
       \cup {RemoveSolanaSignatureRange(r) : r \in Ranges}
       \cup {RetrySolanaSignatureRange(r, <<>>, Reason) : r \in Ranges}
       \cup {InvalidEvent(SolanaSignature_new(s), Reason) : s \in Sigs}
       \cup {MintedEvent(DepositEvent_new(0, s)) : s \in Sigs}

\* The precondition of an event in the State s.
Precondition(s, e) ==
    CASE e.tag = "NewSolanaSignatureRange" ->
            range_key(e.range.before_sol_sig, e.range.until_sol_sig)
               \notin DOMAIN s.solana_signature_ranges
      [] e.tag \in {"RemoveSolanaSignatureRange", "RetrySolanaSignatureRange"} ->
            range_key(e.range.before_sol_sig, e.range.until_sol_sig)
               \in DOMAIN s.solana_signature_ranges
      [] e.tag = "InvalidEvent" ->
            /\ e.signature.sol_sig \in DOMAIN s.solana_signatures
            /\ e.signature.sol_sig \notin DOMAIN s.invalid_events
      [] e.tag = "MintedEvent" ->
            /\ e.event_source.sol_sig \in DOMAIN s.accepted_events
            /\ e.event_source.sol_sig \notin DOMAIN s.minted_events

\* C38 (preconditions): in every reachable State an event traps exactly when
\* its precondition does not hold, and an event that traps leaves the State
\* and the log as they were.
C38_PreconditionsDecide ==
    \A e \in GuardedEvents :
        LET ctx == process_event(Ctx(state, log), e) IN
        /\ ctx.trap <=> ~Precondition(state, e)
        /\ ctx.trap => (ctx.s = state /\ ctx.log = log)
\* ------------------------------------------------ claims: withdraw info
\* The withdrawals of a map that `user` made.
Of(events, user) == {id \in DOMAIN events : events[id].from_icp_address = user}

\* C39 (withdraw info): for every principal get_withdraw_info returns the
\* coupons of that principal's redeemed withdrawals and the burn ids of its
\* burned withdrawals, all of them and nothing of another principal.
C39_WithdrawInfo ==
    \A user \in Principals :
        LET info == get_withdraw_info(state, user) IN
        /\ info.burn_ids = Of(state.withdrawal_burned_events, user)
        /\ \A id \in Of(state.withdrawal_redeemed_events, user) :
              /\ state.withdrawal_redeemed_events[id].coupon # <<>>
              /\ state.withdrawal_redeemed_events[id].coupon[1] \in info.coupons
        /\ \A coupon \in info.coupons :
              /\ coupon.message.from_icp_address = user
              /\ coupon.message.burn_id \in Of(state.withdrawal_redeemed_events, user)

\* One principal holds a coupon and the other a burned withdrawal.
C39_Witness ==
    \E user, other \in Principals :
        /\ user # other
        /\ get_withdraw_info(state, user).coupons # {}
        /\ get_withdraw_info(state, other).burn_ids # {}
\* ------------------------------------------------ claims: tiling
\* The keys of the ranges that NewSolanaSignatureRange events of the log l created.
CreatedKeys(l) ==
    {range_key(l[i].range.before_sol_sig, l[i].range.until_sol_sig) :
        i \in {j \in DOMAIN l : l[j].tag = "NewSolanaSignatureRange"}}

\* C40 (tiling): a run of get_latest_signature in flight reads up to the
\* cursor and no answer makes it trap; every NewSolanaSignatureRange it
\* records has `until` equal to the cursor before the step and `before` equal
\* to the cursor after it, and its key is the key of no range created before.
C40_RangesTile ==
    [][ /\ \A rid \in AwaitingRuns("GetLatestSignature") :
              /\ runs[rid].until = Cursor(state)
              /\ \A resp \in {"ok", "err", "anomaly"} :
                    ~get_latest_signature_match(
                        Ctx(state, log), resp,
                        get_signatures_for_address(chain, 1, <<>>, runs[rid].until),
                        runs[rid].until).trap
        /\ \A i \in Appended :
              log'[i].tag = "NewSolanaSignatureRange" =>
                  /\ log'[i].range.until_sol_sig = Cursor(state)
                  /\ log'[i].range.before_sol_sig = Cursor(state')
                  /\ range_key(log'[i].range.before_sol_sig, log'[i].range.until_sol_sig)
                        \notin CreatedKeys(log)
      ]_vars

\* Two ranges were created, and task B replaced or removed the first one
\* before the second was created.
C40_Witness ==
    \E i, j, k \in DOMAIN log :
        /\ i < j /\ j < k
        /\ log[i].tag = "NewSolanaSignatureRange"
        /\ log[j].tag \in {"RetrySolanaSignatureRange", "RemoveSolanaSignatureRange"}
        /\ log[k].tag = "NewSolanaSignatureRange"
====
